---------------------------- MODULE Spec2Model ----------------------------
(***************************************************************************)
(* PhotoCoachPro: the metric-and-scoring pipeline (exposure, sharpness,    *)
(* color analyzers, score aggregator, print-readiness calculator) and the  *)
(* critique entry points that call it.                                     *)
(*                                                                         *)
(* The program is stateless: every operation is a function of its          *)
(* arguments and of the environment (is Pillow importable, does the file   *)
(* exist, can it be decoded).  The state of the model is the call in      *)
(* progress: which operation ran (op), with which arguments (args), and    *)
(* what it returned or raised (ret).  A call starts from the idle state    *)
(* (op = "none") and Return leads back to it.                              *)
(*                                                                         *)
(* Numbers.  Python floats are modelled by exact fixed-point or rational   *)
(* arithmetic on integers:                                                 *)
(*   - a score is held in hundredths (5025 is 50.25);                      *)
(*   - a weight is held in hundredths (40 is 0.40);                        *)
(*   - a value returned by round(x, 1) is held in tenths, one returned by  *)
(*     round(x, 2) in hundredths;                                          *)
(*   - inches are held in hundredths of an inch.                           *)
(* round(x, n) is round-half-to-even on the exact value.  Where a float    *)
(* computation of the analyzers falls within rounding error of a tie, or   *)
(* math.exp is read from a table, the last returned digit may differ by    *)
(* one from the program's.  The overall of score_image is the exception:   *)
(* where its exact value meets a grade threshold, a rounding tie or a      *)
(* subscore, lines 62-64 of aggregate.py are evaluated operation by        *)
(* operation in IEEE 754 binary64 (round to nearest, ties to even), since  *)
(* the rounding error then decides the grade and the reported value.       *)
(***************************************************************************)
EXTENDS Integers, Sequences, FiniteSets, TLC

VARIABLES op, args, ret

vars == <<op, args, ret>>

---------------------------------------------------------------------------
(* Arithmetic helpers                                                      *)

\* Python's built-in min and max on two numbers.
Min(a, b) == IF b < a THEN b ELSE a

Max(a, b) == IF b > a THEN b ELSE a

Abs(x) == IF x < 0 THEN -x ELSE x

\* floor(n / d) for d > 0 and any integer n.
FloorDiv(n, d) == IF n >= 0 THEN n \div d ELSE -((-n + d - 1) \div d)

\* round(n / d): the integer nearest to n/d, ties to the even one (d > 0).
RoundHalfEven(n, d) ==
    LET q == FloorDiv(n, d)
        r == n - q * d
    IN  IF 2 * r < d THEN q
        ELSE IF 2 * r > d THEN q + 1
        ELSE IF q % 2 = 0 THEN q ELSE q + 1

\* The outcome of a call: a returned value, or a raised exception.
Returned(v) == [raised |-> "", value |-> v]

Raised(e) == [raised |-> e]

---------------------------------------------------------------------------
(* Python floats (IEEE 754 binary64) in the arithmetic of score_image      *)

\* Natural numbers of any size are little-endian sequences of limbs in
\* 0..Base-1 with no leading zero limb; <<>> is 0.  An operator that reads
\* an argument more than once binds it first (CHOOSE over a one-element
\* set), so that the argument is evaluated once.
Base == 16384

LimbBits == 14

\* The significand of a binary64 number has 53 bits.
SignificandBits == 53

RECURSIVE TrimLen(_, _)
TrimLen(a, n) == IF n = 0 \/ a[n] # 0 THEN n ELSE TrimLen(a, n - 1)

Trim(a) ==
    CHOOSE r \in {SubSeq(x, 1, TrimLen(x, Len(x))) : x \in {a}} : TRUE

RECURSIVE Big(_)
Big(n) == IF n = 0 THEN <<>> ELSE <<n % Base>> \o Big(n \div Base)

Limb(a, i) == IF i <= Len(a) THEN a[i] ELSE 0

RECURSIVE AddFrom(_, _, _, _)
AddFrom(a, b, i, carry) ==
    IF i > Len(a) /\ i > Len(b)
    THEN Big(carry)
    ELSE LET t == Limb(a, i) + Limb(b, i) + carry
         IN  <<t % Base>> \o AddFrom(a, b, i + 1, t \div Base)

BigAdd(a, b) ==
    CHOOSE r \in {AddFrom(x, y, 1, 0) : x \in {a}, y \in {b}} : TRUE

\* a - b for a >= b.
RECURSIVE SubFrom(_, _, _, _)
SubFrom(a, b, i, borrow) ==
    IF i > Len(a) THEN <<>>
    ELSE LET t == Limb(a, i) - Limb(b, i) - borrow
         IN  <<(t + Base) % Base>>
                 \o SubFrom(a, b, i + 1, IF t < 0 THEN 1 ELSE 0)

BigSub(a, b) ==
    CHOOSE r \in {Trim(SubFrom(x, y, 1, 0)) : x \in {a}, y \in {b}} : TRUE

\* -1, 0 or 1 as a is below, equal to or above b.
RECURSIVE CmpFrom(_, _, _)
CmpFrom(a, b, i) ==
    IF i = 0 THEN 0
    ELSE IF Limb(a, i) < Limb(b, i) THEN -1
    ELSE IF Limb(a, i) > Limb(b, i) THEN 1
    ELSE CmpFrom(a, b, i - 1)

BigCmp(a, b) ==
    CHOOSE r \in {CmpFrom(x, y, Max(Len(x), Len(y))) :
                  x \in {a}, y \in {b}} : TRUE

\* a * k for 0 <= k <= Base.
RECURSIVE MulSmallFrom(_, _, _, _)
MulSmallFrom(a, k, i, carry) ==
    IF i > Len(a) THEN Big(carry)
    ELSE LET t == a[i] * k + carry
         IN  <<t % Base>> \o MulSmallFrom(a, k, i + 1, t \div Base)

BigMulSmall(a, k) ==
    CHOOSE r \in {Trim(MulSmallFrom(x, k, 1, 0)) : x \in {a}} : TRUE

RECURSIVE MulFrom(_, _, _)
MulFrom(a, b, j) ==
    IF j > Len(b) THEN <<>>
    ELSE BigAdd(BigMulSmall(a, b[j]), <<0>> \o MulFrom(a, b, j + 1))

BigMul(a, b) ==
    CHOOSE r \in {Trim(MulFrom(x, y, 1)) : x \in {a}, y \in {b}} : TRUE

\* The quotient and remainder of a by k, 0 < k <= Base.
RECURSIVE DivSmallFrom(_, _, _, _)
DivSmallFrom(a, k, i, rem) ==
    IF i = 0 THEN [q |-> <<>>, r |-> rem]
    ELSE LET cur == rem * Base + a[i]
         IN  CHOOSE d \in {[q |-> rest.q \o <<cur \div k>>, r |-> rest.r] :
                           rest \in {DivSmallFrom(a, k, i - 1, cur % k)}} :
                 TRUE

BigDivSmall(a, k) ==
    CHOOSE r \in {[q |-> Trim(d.q), r |-> d.r] :
                  d \in {DivSmallFrom(x, k, Len(x), 0) : x \in {a}}} : TRUE

RECURSIVE Pow2(_)
Pow2(n) == IF n = 0 THEN 1 ELSE 2 * Pow2(n - 1)

\* a * 2^k.
BigShl(a, k) ==
    CHOOSE r \in {IF x = <<>> THEN x
                  ELSE [i \in 1..(k \div LimbBits) |-> 0]
                           \o BigMulSmall(x, Pow2(k % LimbBits)) :
                  x \in {a}} : TRUE

\* floor(a / 2^k), and whether bits were shifted out.
BigShr(a, k) ==
    CHOOSE r \in
        {LET drop == Min(k \div LimbBits, Len(x))
         IN  CHOOSE s \in
                 {[q |-> d.q,
                   inexact |-> d.r # 0 \/ \E i \in 1..drop : x[i] # 0] :
                  d \in {BigDivSmall(SubSeq(x, drop + 1, Len(x)),
                                     Pow2(k % LimbBits))}} : TRUE :
         x \in {a}} : TRUE

RECURSIVE SmallBitLen(_)
SmallBitLen(n) == IF n = 0 THEN 0 ELSE 1 + SmallBitLen(n \div 2)

BitLen(a) ==
    CHOOSE n \in {IF x = <<>> THEN 0
                  ELSE LimbBits * (Len(x) - 1) + SmallBitLen(x[Len(x)]) :
                  x \in {a}} : TRUE

IsOdd(a) == CHOOSE o \in {x # <<>> /\ x[1] % 2 = 1 : x \in {a}} : TRUE

\* A float is [neg, m, e], its value (-1)^neg * m * 2^e with m a natural
\* number of at most 53 bits.

\* m of len > 53 bits, cut to 53 bits: sh is floor(m / 2^(s-1)), s = len - 53,
\* so its lowest bit is the first bit dropped.
RoundBits(neg, shq, inexact, e, s) ==
    CHOOSE f \in
        {CHOOSE g \in
             {IF BitLen(q2) > SignificandBits
              THEN [neg |-> neg, m |-> BigDivSmall(q2, 2).q, e |-> e + s + 1]
              ELSE [neg |-> neg, m |-> q2, e |-> e + s] :
              q2 \in {IF IsOdd(shq) /\ (inexact \/ IsOdd(q))
                      THEN BigAdd(q, <<1>>) ELSE q}} : TRUE :
         q \in {BigDivSmall(shq, 2).q}} : TRUE

\* Round53 rounds m * 2^e (plus a positive part below one unit of m when
\* sticky) to the nearest float, ties to even.
Round53(neg, m, e, sticky) ==
    CHOOSE f \in
        {IF len <= SignificandBits THEN [neg |-> neg, m |-> x, e |-> e]
         ELSE CHOOSE g \in
                  {RoundBits(neg, sh.q, sh.inexact \/ sticky, e,
                             len - SignificandBits) :
                   sh \in {BigShr(x, len - SignificandBits - 1)}} : TRUE :
         x \in {m}, len \in {BitLen(m)}} : TRUE

FZero == [neg |-> FALSE, m |-> <<>>, e |-> 0]

\* float(p / k) for an integer p and 0 < k <= Base: the float nearest to
\* the quotient, which is what a decimal literal or a parsed number is.
FromRatio(p, k) ==
    CHOOSE f \in
        {Round53(p < 0, d.q, -(5 * LimbBits), d.r # 0) :
         d \in {BigDivSmall(BigShl(Big(Abs(p)), 5 * LimbBits), k)}} : TRUE

FMul(a, b) ==
    CHOOSE f \in
        {Round53(x.neg # y.neg, BigMul(x.m, y.m), x.e + y.e, FALSE) :
         x \in {a}, y \in {b}} : TRUE

\* The sum of two floats whose significands mx and my are aligned at 2^e.
AddAligned(xneg, mx, yneg, my, e) ==
    IF xneg = yneg THEN Round53(xneg, BigAdd(mx, my), e, FALSE)
    ELSE IF BigCmp(mx, my) >= 0
    THEN Round53(xneg, BigSub(mx, my), e, FALSE)
    ELSE Round53(yneg, BigSub(my, mx), e, FALSE)

FAdd(a, b) ==
    CHOOSE f \in
        {CHOOSE g \in
             {AddAligned(x.neg, mx, y.neg, my, Min(x.e, y.e)) :
              mx \in {BigShl(x.m, x.e - Min(x.e, y.e))},
              my \in {BigShl(y.m, y.e - Min(x.e, y.e))}} : TRUE :
         x \in {a}, y \in {b}} : TRUE

\* The largest q in lo..hi with q * d <= r (lo is known to qualify).
RECURSIVE QuotientLimb(_, _, _, _)
QuotientLimb(r, d, lo, hi) ==
    IF lo = hi THEN lo
    ELSE CHOOSE q \in
             {IF BigCmp(BigMulSmall(d, mid), r) <= 0
              THEN QuotientLimb(r, d, mid, hi)
              ELSE QuotientLimb(r, d, lo, mid - 1) :
              mid \in {(lo + hi + 1) \div 2}} : TRUE

\* Long division of r * Base^n by d for r < d, one limb of the quotient
\* per step: the quotient limbs (lowest first) and the remainder.
RECURSIVE DivLimbs(_, _, _)
DivLimbs(r, d, n) ==
    IF n = 0 THEN [q |-> <<>>, r |-> r]
    ELSE CHOOSE res \in
             {CHOOSE t \in
                  {[q |-> rest.q \o <<q>>, r |-> rest.r] :
                   rest \in {DivLimbs(BigSub(<<0>> \o r, BigMulSmall(d, q)),
                                      d, n - 1)}} : TRUE :
              q \in {QuotientLimb(<<0>> \o r, d, 0, Base - 1)}} : TRUE

\* Four limbs after the leading bit give the quotient 56 bits or more.
QuotientLimbs == 4

\* The quotient of two floats whose significands na and nb have 53 bits and
\* whose quotient is counted in units of 2^e.
DivAligned(neg, na, nb, e) ==
    CHOOSE f \in
        {Round53(neg, Trim(d.q \o (IF ge THEN <<1>> ELSE <<>>)),
                 e - QuotientLimbs * LimbBits, d.r # <<>>) :
         ge \in {BigCmp(na, nb) >= 0},
         d \in {DivLimbs(IF BigCmp(na, nb) >= 0 THEN BigSub(na, nb) ELSE na,
                         nb, QuotientLimbs)}} : TRUE

\* a / b for b # 0.
FDiv(a, b) ==
    CHOOSE f \in
        {IF x.m = <<>> THEN FZero
         ELSE CHOOSE g \in
                  {DivAligned(x.neg # y.neg, na, nb,
                              (x.e - (SignificandBits - BitLen(x.m)))
                                  - (y.e - (SignificandBits - BitLen(y.m)))) :
                   na \in {BigShl(x.m, SignificandBits - BitLen(x.m))},
                   nb \in {BigShl(y.m, SignificandBits - BitLen(y.m))}} :
                  TRUE :
         x \in {a}, y \in {b}} : TRUE

\* The sign of a float: -1, 0 or 1.
FSign(x) == IF x.m = <<>> THEN 0 ELSE IF x.neg THEN -1 ELSE 1

\* -1, 0 or 1 as the float a is below, equal to or above the float b.
FCmp(a, b) ==
    CHOOSE c \in
        {IF FSign(x) # FSign(y)
         THEN (IF FSign(x) < FSign(y) THEN -1 ELSE 1)
         ELSE FSign(x) * BigCmp(BigShl(x.m, x.e - Min(x.e, y.e)),
                                BigShl(y.m, y.e - Min(x.e, y.e))) :
         x \in {a}, y \in {b}} : TRUE

\* -1, 0 or 1 as the float a is below, equal to or above p / k, for an
\* integer p >= 0 and k > 0 (a compared with a decimal number).
FCmpRatio(a, p, k) ==
    CHOOSE c \in
        {IF FSign(x) < 0 THEN -1
         ELSE IF x.e >= 0
         THEN BigCmp(BigShl(BigMul(x.m, Big(k)), x.e), Big(p))
         ELSE BigCmp(BigMul(x.m, Big(k)), BigShl(Big(p), -x.e)) :
         x \in {a}} : TRUE

---------------------------------------------------------------------------
(* scoring/aggregate.py                                                    *)

\* _clamp with the upper bound forgotten.
_clamp_no_upper(x, lo, hi) == Max(lo, x)

_clamp(x, lo, hi) == Max(lo, Min(hi, x))

\* A metric dict as score_image reads it: only the key "score_0_100"
\* matters.  score_kind says whether the key is absent, holds a number, or
\* holds a value float() rejects (None, a list); score_0_100 is in
\* hundredths and is read only when score_kind = "number".
MetricDict(kind, v) == [score_kind |-> kind, score_0_100 |-> v]

\* _getf(d, key, default): d.get(key, default), then float(v), and the
\* default again when float(v) raises.
_getf(d, default) ==
    IF d.score_kind = "number" THEN d.score_0_100 ELSE default

\* The neutral default of score_image, 50.0, in hundredths.
NeutralScore == 5000

ScoreWeights == [exposure |-> 40, sharpness |-> 35, color |-> 25]

\* weights or ScoreWeights(): a dataclass instance is always truthy.
WeightsUsed(weights) == IF weights.given THEN weights.w ELSE ScoreWeights

\* The three clamped subscores, in hundredths (lines 57-59).
Subscores(exposure, sharpness, color) ==
    [exposure  |-> _clamp(_getf(exposure, NeutralScore), 0, 10000),
     sharpness |-> _clamp(_getf(sharpness, NeutralScore), 0, 10000),
     color     |-> _clamp(_getf(color, NeutralScore), 0, 10000)]

\* total_w = max(0.0001, sum of the weights), in units of 0.0001.
TotalW(w) == Max(1, 100 * (w.exposure + w.sharpness + w.color))

\* The weighted sum exp*w.exposure + shp*w.sharpness + col*w.color, in units
\* of 0.0001 (hundredths of a score times hundredths of a weight).
WeightedSum(sub, w) ==
    sub.exposure * w.exposure + sub.sharpness * w.sharpness
        + sub.color * w.color

\* overall after the clamp of line 64, as the exact fraction num/den: the
\* value the float operations of lines 62-64 approximate.
Overall(sub, w) ==
    LET den == TotalW(w)
    IN  [num |-> _clamp(WeightedSum(sub, w), 0, 100 * den), den |-> den]

\* float(v) for a score or a weight v given in hundredths.
FloatOf(h) == FromRatio(h, 100)

\* max(lo, min(hi, x)) on floats.
FClamp(x, lo, hi) ==
    CHOOSE r \in {IF FCmp(v, hi) > 0 THEN hi
                  ELSE IF FCmp(v, lo) < 0 THEN lo ELSE v : v \in {x}} : TRUE

\* max(0.0001, x) on floats.
FloorAtEpsilon(x) ==
    CHOOSE r \in {IF FCmp(v, eps) > 0 THEN v ELSE eps :
                  v \in {x}, eps \in {FromRatio(1, 10000)}} : TRUE

\* overall as lines 62-64 compute it, operation by operation in floats:
\* (exp * w.exposure + shp * w.sharpness + col * w.color) / total_w, clamped.
overall_float(sub, w) ==
    CHOOSE r \in
        {FClamp(FDiv(FAdd(FAdd(FMul(FloatOf(sub.exposure), we),
                               FMul(FloatOf(sub.sharpness), ws)),
                          FMul(FloatOf(sub.color), wc)),
                     FloorAtEpsilon(FAdd(FAdd(we, ws), wc))),
                FZero, FromRatio(100, 1)) :
         we \in {FloatOf(w.exposure)},
         ws \in {FloatOf(w.sharpness)},
         wc \in {FloatOf(w.color)}} : TRUE

\* -1, 0 or 1 as the float overall is below, equal to or above p / k.  The
\* float differs from the exact fraction by far less than two distinct
\* values compared here differ, so the exact fraction decides unless it
\* equals p / k, and the float operations decide when it does.
OverallVersus(sub, w, p, k) ==
    LET o == Overall(sub, w)
    IN  IF o.num * k < p * o.den THEN -1
        ELSE IF o.num * k > p * o.den THEN 1
        ELSE FCmpRatio(overall_float(sub, w), p, k)

\* The letter grade of lines 67-76, decided on the unrounded overall.
Grade(sub, w) ==
    IF OverallVersus(sub, w, 93, 1) >= 0 THEN "A"
    ELSE IF OverallVersus(sub, w, 85, 1) >= 0 THEN "B"
    ELSE IF OverallVersus(sub, w, 75, 1) >= 0 THEN "C"
    ELSE IF OverallVersus(sub, w, 65, 1) >= 0 THEN "D"
    ELSE "F"

\* round(overall, 1), in tenths: the tenth nearest to the float; when the
\* exact fraction is halfway between two tenths the float lies below it,
\* above it, or on it (and then the even tenth is taken).
RoundOverall(sub, w) ==
    LET o     == Overall(sub, w)
        twice == 20 * o.num
    IN  IF twice % o.den = 0 /\ (twice \div o.den) % 2 = 1
        THEN LET below == (twice \div o.den - 1) \div 2
                 side  == FCmpRatio(overall_float(sub, w), o.num, o.den)
             IN  CHOOSE r \in {IF c < 0 THEN below
                               ELSE IF c > 0 THEN below + 1
                               ELSE RoundHalfEven(10 * o.num, o.den) :
                               c \in {side}} : TRUE
        ELSE RoundHalfEven(10 * o.num, o.den)

\* score_image: overall_0_100 and subscores_0_100 are round(x, 1), in tenths.
score_image(exposure, sharpness, color, weights) ==
    LET w   == WeightsUsed(weights)
        sub == Subscores(exposure, sharpness, color)
    IN  [overall_0_100   |-> RoundOverall(sub, w),
         grade           |-> Grade(sub, w),
         weights         |-> w,
         subscores_0_100 |->
             [exposure  |-> RoundHalfEven(sub.exposure, 10),
              sharpness |-> RoundHalfEven(sub.sharpness, 10),
              color     |-> RoundHalfEven(sub.color, 10)]]

---------------------------------------------------------------------------
(* Inputs of score_image                                                   *)

\* Scores handed to score_image, in hundredths: below 0, above 100, on and
\* next to the grade thresholds, and with more than one decimal.
ScoreInputs ==
    {-500, 0, 5025, 6490, 6500, 8500, 9290, 9300, 10000, 25000}

MetricDicts ==
    {MetricDict("absent", 0), MetricDict("not_a_number", 0)}
        \cup {MetricDict("number", v) : v \in ScoreInputs}

\* Weight triples in hundredths; the last two are not valid ScoreWeights.
WeightTriples ==
    {[exposure |-> 40, sharpness |-> 35, color |-> 25],
     [exposure |-> 100, sharpness |-> 0, color |-> 0],
     [exposure |-> 1, sharpness |-> 1, color |-> 1],
     [exposure |-> 10, sharpness |-> 20, color |-> 30],
     [exposure |-> 0, sharpness |-> 0, color |-> 0],
     [exposure |-> -50, sharpness |-> 25, color |-> 25]}

WeightArgs ==
    {[given |-> FALSE, w |-> ScoreWeights]}
        \cup {[given |-> TRUE, w |-> w] : w \in WeightTriples}

\* The invariant of ScoreWeights: all weights >= 0 and not all zero.
ValidWeights(w) ==
    /\ w.exposure >= 0 /\ w.sharpness >= 0 /\ w.color >= 0
    /\ w.exposure + w.sharpness + w.color > 0

---------------------------------------------------------------------------
(* print/dpi.py                                                            *)

\* PrintSizeInches: a print size, in hundredths of an inch.
PrintSizeInches(width_in, height_in) ==
    [width_in |-> width_in, height_in |-> height_in]

\* effective_ppi reporting the larger of the two PPI values as ppi_min.
effective_ppi_max(px_w, px_h, size) ==
    IF size.width_in <= 0 \/ size.height_in <= 0
    THEN Raised("ValueError")
    ELSE LET ppi_w == RoundHalfEven(10000 * px_w, size.width_in)
             ppi_h == RoundHalfEven(10000 * px_h, size.height_in)
         IN  Returned([ppi_width  |-> ppi_w,
                       ppi_height |-> ppi_h,
                       ppi_min    |-> Max(ppi_w, ppi_h)])

\* effective_ppi: ppi_width, ppi_height and ppi_min are round(x, 2), held in
\* hundredths of a PPI.  px / (in/100) in hundredths is 10000*px/in.
effective_ppi(px_w, px_h, size) ==
    IF size.width_in <= 0 \/ size.height_in <= 0
    THEN Raised("ValueError")
    ELSE LET ppi_w == RoundHalfEven(10000 * px_w, size.width_in)
             ppi_h == RoundHalfEven(10000 * px_h, size.height_in)
             \* min(ppi_w, ppi_h) on the unrounded quotients: the second
             \* argument wins only when it is strictly smaller.
             h_smaller == px_h * size.width_in < px_w * size.height_in
         IN  Returned([ppi_width  |-> ppi_w,
                       ppi_height |-> ppi_h,
                       ppi_min    |-> IF h_smaller THEN ppi_h ELSE ppi_w])

\* quality_tier deciding on ppi_min rounded to a whole number of PPI.
quality_tier_rounded(ppi_min) ==
    LET p == RoundHalfEven(ppi_min, 100)
    IN  IF p >= 300
        THEN [tier |-> "excellent",
              message |-> "Excellent for high-quality prints (300+ PPI)."]
        ELSE IF p >= 240
        THEN [tier |-> "very_good",
              message |-> "Very good print quality (240+ PPI)."]
        ELSE IF p >= 200
        THEN [tier |-> "good",
              message |-> "Good print quality for most uses (200+ PPI)."]
        ELSE IF p >= 150
        THEN [tier |-> "fair",
              message |->
                  "Fair quality; best for larger viewing distance (150+ PPI)."]
        ELSE [tier |-> "low",
              message |-> "Low PPI; print may look soft/pixelated."]

\* quality_tier: ppi_min in hundredths of a PPI.
quality_tier(ppi_min) ==
    IF ppi_min >= 30000
    THEN [tier |-> "excellent",
          message |-> "Excellent for high-quality prints (300+ PPI)."]
    ELSE IF ppi_min >= 24000
    THEN [tier |-> "very_good",
          message |-> "Very good print quality (240+ PPI)."]
    ELSE IF ppi_min >= 20000
    THEN [tier |-> "good",
          message |-> "Good print quality for most uses (200+ PPI)."]
    ELSE IF ppi_min >= 15000
    THEN [tier |-> "fair",
          message |->
              "Fair quality; best for larger viewing distance (150+ PPI)."]
    ELSE [tier |-> "low",
          message |-> "Low PPI; print may look soft/pixelated."]

\* max_print_size_for_target_ppi: target_ppi is a whole number of PPI; the
\* sizes are round(x, 2), in hundredths of an inch.
max_print_size_for_target_ppi(px_w, px_h, target_ppi) ==
    IF target_ppi <= 0
    THEN Raised("ValueError")
    ELSE Returned([max_width_in  |-> RoundHalfEven(100 * px_w, target_ppi),
                   max_height_in |-> RoundHalfEven(100 * px_h, target_ppi),
                   target_ppi    |-> target_ppi])

\* An Optional[float] argument: None, or a number of hundredths of an inch.
None == [given |-> FALSE, v |-> 0]

Some(v) == [given |-> TRUE, v |-> v]

\* Python truthiness of an Optional[float]: None and 0 are falsy.
Truthy(x) == x.given /\ x.v # 0

\* The "targets" dict of dpi_recommendations (lines 113-118).
PresetTargets(px_w, px_h) ==
    [max_print_at_300ppi |->
         max_print_size_for_target_ppi(px_w, px_h, 300).value,
     max_print_at_240ppi |->
         max_print_size_for_target_ppi(px_w, px_h, 240).value,
     max_print_at_200ppi |->
         max_print_size_for_target_ppi(px_w, px_h, 200).value,
     max_print_at_150ppi |->
         max_print_size_for_target_ppi(px_w, px_h, 150).value]

\* dpi_recommendations taking the target branch when either target
\* dimension is truthy ("or" for "and").
dpi_recommendations_or(px_w, px_h, target_print_w_in, target_print_h_in) ==
    IF px_w <= 0 \/ px_h <= 0
    THEN Raised("ValueError")
    ELSE IF Truthy(target_print_w_in) \/ Truthy(target_print_h_in)
    THEN LET size == PrintSizeInches(target_print_w_in.v,
                                     target_print_h_in.v)
             eff  == effective_ppi(px_w, px_h, size)
         IN  IF eff.raised # ""
             THEN eff
             ELSE Returned(
                 [pixels  |-> [width_px |-> px_w, height_px |-> px_h],
                  targets |-> PresetTargets(px_w, px_h),
                  target_print_size_in |->
                      [width_in |-> size.width_in,
                       height_in |-> size.height_in],
                  effective_ppi |-> eff.value,
                  quality |-> quality_tier(eff.value.ppi_min)])
    ELSE Returned([pixels  |-> [width_px |-> px_w, height_px |-> px_h],
                   targets |-> PresetTargets(px_w, px_h)])

\* dpi_recommendations: the returned dict is a record whose DOMAIN is the
\* set of its keys.
dpi_recommendations(px_w, px_h, target_print_w_in, target_print_h_in) ==
    IF px_w <= 0 \/ px_h <= 0
    THEN Raised("ValueError")
    ELSE IF Truthy(target_print_w_in) /\ Truthy(target_print_h_in)
    THEN LET size == PrintSizeInches(target_print_w_in.v,
                                     target_print_h_in.v)
             eff  == effective_ppi(px_w, px_h, size)
         IN  IF eff.raised # ""
             THEN eff
             ELSE Returned(
                 [pixels  |-> [width_px |-> px_w, height_px |-> px_h],
                  targets |-> PresetTargets(px_w, px_h),
                  target_print_size_in |->
                      [width_in |-> size.width_in,
                       height_in |-> size.height_in],
                  effective_ppi |-> eff.value,
                  quality |-> quality_tier(eff.value.ppi_min)])
    ELSE Returned([pixels  |-> [width_px |-> px_w, height_px |-> px_h],
                   targets |-> PresetTargets(px_w, px_h)])

---------------------------------------------------------------------------
(* Inputs of the print-readiness functions                                 *)

\* Pixel dimensions: non-positive, tiny, and ordinary ones.
PixelDims == {-5, 0, 1, 10, 1000, 2000, 3000}

\* Target PPI values.
TargetPpis == {-300, 0, 1, 72, 150, 300}

\* Print dimensions in hundredths of an inch (667 is 6.67 in).
PrintInches == {-500, 0, 1, 3, 667, 1000}

OptionalInches == {None} \cup {Some(v) : v \in PrintInches}

---------------------------------------------------------------------------
(* The decoded image, as Pillow hands it to the analyzers                  *)

\* The colours a modelled image is made of.
Palette ==
    << [r |-> 0,   g |-> 0,   b |-> 0],      \* black
       [r |-> 255, g |-> 0,   b |-> 0],      \* pure red
       [r |-> 200, g |-> 120, b |-> 120],    \* muted red
       [r |-> 120, g |-> 200, b |-> 200],    \* muted cyan
       [r |-> 255, g |-> 255, b |-> 255],    \* white
       [r |-> 128, g |-> 128, b |-> 128] >>  \* mid-gray

PaletteIdx == 1..Len(Palette)

\* At most MaxCount units of pixels of each palette colour.
MaxCount == 2

\* A unit of pixels is 1 pixel (images of a few pixels) or 10 pixels.
PixelScales == {1, 10}

\* The colours that are only tried alone, in uniform images.
UniformOnly == {j \in PaletteIdx : Palette[j] = [r |-> 128, g |-> 128, b |-> 128]}

\* An image is a number of pixels of each palette colour: n[j] units of
\* scale pixels of colour j, and at least one pixel.  Where the pixels lie
\* is not modelled; the one statistic that depends on it, the Laplacian
\* variance, is a separate input.
Images ==
    {[n |-> n, scale |-> k] :
        n \in {m \in [PaletteIdx -> 0..MaxCount] :
                  /\ \E j \in PaletteIdx : m[j] > 0
                  /\ \A j \in UniformOnly :
                         m[j] > 0 => \A i \in PaletteIdx \ {j} : m[i] = 0},
        k \in PixelScales}

Count(img, j) == img.scale * img.n[j]

\* Pillow's convert("L"): the ITU-R 601-2 luma transform in 16-bit fixed
\* point.
Luminance(c) == (c.r * 19595 + c.g * 38470 + c.b * 7471 + 32768) \div 65536

\* Pillow's convert("HSV"), S channel: 255 * (max - min) / max, truncated.
Saturation(c) ==
    LET hi == Max(c.r, Max(c.g, c.b))
        lo == Min(c.r, Min(c.g, c.b))
    IN  IF hi = lo THEN 0 ELSE (255 * (hi - lo)) \div hi

RECURSIVE SumOver(_, _)
\* The sum of f[x] over the x in S.
SumOver(f, S) ==
    IF S = {} THEN 0
    ELSE LET x == CHOOSE y \in S : TRUE IN f[x] + SumOver(f, S \ {x})

\* The number of pixels of the image.
PixelCount(img) == SumOver([j \in PaletteIdx |-> Count(img, j)], PaletteIdx)

RECURSIVE Bins(_, _, _)
\* The 256-bin table [i \in lo..hi |-> f[i]], built bin by bin.
Bins(f, lo, hi) ==
    IF lo = hi THEN lo :> f[lo]
    ELSE LET mid == (lo + hi) \div 2
         IN  Bins(f, lo, mid) @@ Bins(f, mid + 1, hi)

\* The palette colours whose luminance, or saturation, falls in each bin.
LumMembers ==
    Bins([i \in 0..255 |-> {j \in PaletteIdx : Luminance(Palette[j]) = i}],
         0, 255)

SatMembers ==
    Bins([i \in 0..255 |-> {j \in PaletteIdx : Saturation(Palette[j]) = i}],
         0, 255)

\* img.convert("L").histogram(): 256 bins.
LumHistogram(img) ==
    Bins([i \in 0..255 |->
             SumOver([j \in PaletteIdx |-> Count(img, j)], LumMembers[i])],
         0, 255)

\* hsv.split()[1].histogram(): 256 bins of the S channel.
SatHistogram(img) ==
    Bins([i \in 0..255 |->
             SumOver([j \in PaletteIdx |-> Count(img, j)], SatMembers[i])],
         0, 255)

\* ImageStat.Stat(img).sum for the R, G and B bands.
ChannelSums(img) ==
    [r |-> SumOver([j \in PaletteIdx |-> Count(img, j) * Palette[j].r],
                   PaletteIdx),
     g |-> SumOver([j \in PaletteIdx |-> Count(img, j) * Palette[j].g],
                   PaletteIdx),
     b |-> SumOver([j \in PaletteIdx |-> Count(img, j) * Palette[j].b],
                   PaletteIdx)]

RECURSIVE Cumulative(_, _, _, _)
\* The list cdf of the running sums of hist over the bins lo..hi, where
\* base is the sum of the bins below lo: cdf[i] = hist[0] + ... + hist[i].
Cumulative(hist, lo, hi, base) ==
    IF lo = hi THEN lo :> (base + hist[lo])
    ELSE LET mid  == (lo + hi) \div 2
             left == Cumulative(hist, lo, mid, base)
         IN  left @@ Cumulative(hist, mid + 1, hi, left[mid])

RECURSIVE WeightedBins(_, _, _)
\* sum(i * hist[i] for i in range(lo, hi + 1)), summed by halves.
WeightedBins(hist, lo, hi) ==
    IF lo = hi THEN lo * hist[lo]
    ELSE LET mid == (lo + hi) \div 2
         IN  WeightedBins(hist, lo, mid) + WeightedBins(hist, mid + 1, hi)

RECURSIVE FirstAtLeast(_, _, _, _)
\* The scan "for i, v in enumerate(cdf): if v >= target: return i" over the
\* bins lo..hi: the first bin of lo..hi whose cumulative count reaches the
\* target, and 256 when there is none.  The bins are visited in increasing
\* order, the lower half before the upper half.
FirstAtLeast(cdf, target, lo, hi) ==
    IF lo = hi
    THEN IF cdf[lo] >= target THEN lo ELSE 256
    ELSE LET mid  == (lo + hi) \div 2
             left == FirstAtLeast(cdf, target, lo, mid)
         IN  IF left <= 255 THEN left
             ELSE FirstAtLeast(cdf, target, mid + 1, hi)

\* The environment of an analyzer call: is Pillow importable, and is the
\* path missing, a file Pillow cannot decode, or a decodable image.
FileKinds == {"missing", "corrupt", "image"}

\* Stands for the image when the file is never decoded.
NoPixels == [n |-> [j \in PaletteIdx |-> 0], scale |-> 1]

\* The images a call is tried on: every image when the file is decoded, and
\* one only when it is not (the pixels are then never read).
ImagesFor(pillow, file) ==
    IF pillow /\ file = "image" THEN Images ELSE {NoPixels}

\* The result of every analyzer when Pillow cannot be imported.
PillowNotInstalled == [available |-> FALSE, error |-> "Pillow not installed"]

\* The result of every analyzer when the path does not exist.
FileNotFound == [available |-> FALSE, error |-> "File not found"]

---------------------------------------------------------------------------
(* critique/exposure.py                                                    *)

\* percentile_value with the target rounded up instead of truncated.
percentile_value_ceil(cdf, total, pct) ==
    LET target == (pct * total + 99) \div 100
        i      == FirstAtLeast(cdf, target, 0, 255)
    IN  IF i <= 255 THEN i ELSE 255

\* percentile_value scanning for a cumulative count above the target.
percentile_value_strict(cdf, total, pct) ==
    LET target == (pct * total) \div 100
        i      == FirstAtLeast(cdf, target + 1, 0, 255)
    IN  IF i <= 255 THEN i ELSE 255

\* percentile_value(frac), frac = pct/100: target = int(frac * total).
percentile_value(cdf, total, pct) ==
    LET target == (pct * total) \div 100
        i      == FirstAtLeast(cdf, target, 0, 255)
    IN  IF i <= 255 THEN i ELSE 255

\* ExposurePenalties without the penalty for a dynamic range below 60.
ExposurePenalties_no_range_penalty(wsum, total, clipped_sh, clipped_hi, dynamic_range) ==
    LET mean_pen ==
            IF wsum < 110 * total
            THEN Min(140 * total, 2 * (110 * total - wsum))
            ELSE IF wsum > 145 * total
            THEN Min(140 * total, 2 * (wsum - 145 * total))
            ELSE 0
        hi_pen == Min(120 * total, 1600 * clipped_hi)
        sh_pen == Min(120 * total, 1600 * clipped_sh)
        dr_adj == IF dynamic_range >= 80 /\ dynamic_range <= 160
                  THEN 12 * total
                  ELSE 0
    IN  400 * total - mean_pen - hi_pen - sh_pen + dr_adj

\* The score of exposure.py before it is clamped (lines 93-110), times
\* 4 * total (an integer).  wsum is sum(i * hist[i]), so mean = wsum / total.
ExposurePenalties(wsum, total, clipped_sh, clipped_hi, dynamic_range) ==
    LET mean_pen ==
            IF wsum < 110 * total
            THEN Min(140 * total, 2 * (110 * total - wsum))
            ELSE IF wsum > 145 * total
            THEN Min(140 * total, 2 * (wsum - 145 * total))
            ELSE 0
        hi_pen == Min(120 * total, 1600 * clipped_hi)
        sh_pen == Min(120 * total, 1600 * clipped_sh)
        dr_adj == IF dynamic_range < 60 THEN -((60 - dynamic_range) * total)
                  ELSE IF dynamic_range >= 80 /\ dynamic_range <= 160
                  THEN 12 * total
                  ELSE 0
    IN  400 * total - mean_pen - hi_pen - sh_pen + dr_adj

ExposureScore_unclamped(wsum, total, clipped_sh, clipped_hi, dynamic_range) ==
    Max(0, ExposurePenalties(wsum, total, clipped_sh, clipped_hi,
                             dynamic_range))

\* score = max(0.0, min(100.0, score)) (line 112), times 4 * total.
ExposureScore(wsum, total, clipped_sh, clipped_hi, dynamic_range) ==
    Max(0, Min(400 * total,
               ExposurePenalties(wsum, total, clipped_sh, clipped_hi,
                                 dynamic_range)))

\* The notes of exposure.py lines 66-91.
ExposureNotes(wsum, total, clipped_sh, clipped_hi, dynamic_range) ==
    << IF wsum < 110 * total
       THEN "Image looks underexposed (overall too dark)."
       ELSE IF wsum > 145 * total
       THEN "Image looks overexposed (overall too bright)."
       ELSE "Overall brightness looks reasonable.",
       IF dynamic_range < 60
       THEN "Low dynamic range (may look flat or muddy)."
       ELSE IF dynamic_range > 170
       THEN "Very high dynamic range (could be harsh or high-contrast)."
       ELSE "Dynamic range looks healthy." >>
    \o (IF 100 * clipped_hi > 2 * total
        THEN << "Noticeable highlight clipping (blown whites)." >>
        ELSE << >>)
    \o (IF 100 * clipped_sh > 2 * total
        THEN << "Noticeable shadow clipping (crushed blacks)." >>
        ELSE << >>)

\* exposure_metrics.  Image.open(...).convert("L") is outside any try
\* block: on a file Pillow cannot decode it raises.  score_0_100 is in
\* tenths, the mean in hundredths, the clipped percentages in thousandths.
exposure_metrics(pillow, file, img) ==
    IF ~pillow THEN Returned(PillowNotInstalled)
    ELSE IF file = "missing" THEN Returned(FileNotFound)
    ELSE IF file = "corrupt" THEN Raised("UnidentifiedImageError")
    ELSE LET hist  == LumHistogram(img)
             cdf   == Cumulative(hist, 0, 255, 0)
             sum   == cdf[255]
             total == IF sum = 0 THEN 1 ELSE sum
             p05   == percentile_value(cdf, total, 5)
             p95   == percentile_value(cdf, total, 95)
             wsum  == WeightedBins(hist, 0, 255)
             clipped_sh == cdf[2]
             clipped_hi == cdf[255] - cdf[252]
             dynamic_range == p95 - p05
             score == ExposureScore(wsum, total, clipped_sh, clipped_hi,
                                    dynamic_range)
         IN  Returned(
             [available |-> TRUE,
              brightness_mean_0_255 |-> RoundHalfEven(100 * wsum, total),
              brightness_p05_0_255 |-> p05,
              brightness_p95_0_255 |-> p95,
              dynamic_range_0_255 |-> dynamic_range,
              clipped_shadows_pct |->
                  RoundHalfEven(100000 * clipped_sh, total),
              clipped_highlights_pct |->
                  RoundHalfEven(100000 * clipped_hi, total),
              score_0_100 |-> RoundHalfEven(10 * score, 4 * total),
              notes |-> ExposureNotes(wsum, total, clipped_sh, clipped_hi,
                                      dynamic_range)])

---------------------------------------------------------------------------
(* critique/sharpness.py                                                   *)

\* math.exp(-v / 180.0) for a whole number v >= 0, in units of 1e-8, from
\* e^(-v/180) = e^(-400c/180) * e^(-20a/180) * e^(-b/180) with
\* v = 400c + 20a + b; each table holds its factor in units of 1e-4.  The
\* result is within 0.0002 of math.exp.
ExpStep1 ==
    << 10000, 9945, 9890, 9835, 9780, 9726, 9672, 9619, 9565, 9512,
       9460, 9407, 9355, 9303, 9252, 9200, 9149, 9099, 9048, 8998 >>

ExpStep20 ==
    << 10000, 8948, 8007, 7165, 6412, 5738, 5134, 4594, 4111, 3679,
       3292, 2946, 2636, 2359, 2111, 1889, 1690, 1512, 1353, 1211 >>

ExpStep400 == << 10000, 1084, 117, 13, 1 >>

ExpNeg180(v) ==
    LET c == v \div 400
        a == (v % 400) \div 20
        b == v % 20
    IN  IF c >= Len(ExpStep400) THEN 0
        ELSE ((ExpStep400[c + 1] * ExpStep20[a + 1]) \div 10000)
                 * ExpStep1[b + 1]

\* The score of sharpness.py lines 76-82 in millionths of a point: the
\* curve 100 * (1 - exp(-variance / 180)) clamped to [0,100], less a flat
\* 20 points, floored at 0, when variance < 25.
SharpnessScore(variance) ==
    LET curve == Max(0, Min(100000000, 100000000 - ExpNeg180(variance)))
    IN  IF variance < 25 THEN Max(0, curve - 20000000) ELSE curve

\* The notes of sharpness.py lines 66-71 and 83.
SharpnessNotes(variance) ==
    << IF variance < 60
       THEN "Image likely soft or slightly out of focus."
       ELSE IF variance < 180
       THEN "Sharpness looks decent for typical viewing sizes."
       ELSE "Strong fine detail; image appears very sharp." >>
    \o (IF variance < 25
        THEN << "Very low edge energy detected (possible motion blur or heavy noise reduction)." >>
        ELSE << >>)

\* sharpness_metrics.  The input is the variance stddev * stddev of the
\* Laplacian-filtered image, a whole number here; laplacian_stddev, its
\* square root, is not part of the modelled result.  laplacian_variance is
\* in thousandths, score_0_100 in tenths.
sharpness_metrics(pillow, file, variance) ==
    IF ~pillow THEN Returned(PillowNotInstalled)
    ELSE IF file = "missing" THEN Returned(FileNotFound)
    ELSE IF file = "corrupt" THEN Raised("UnidentifiedImageError")
    ELSE Returned(
             [available |-> TRUE,
              laplacian_variance |-> 1000 * variance,
              score_0_100 |-> RoundHalfEven(SharpnessScore(variance), 100000),
              notes |-> SharpnessNotes(variance)])

---------------------------------------------------------------------------
(* critique/color.py                                                       *)

\* percentile_s scanning for a cumulative count above the target.
percentile_s_strict(cdf, total, pct) ==
    LET target == (pct * total) \div 100
        i      == FirstAtLeast(cdf, target + 1, 0, 255)
    IN  IF i <= 255 THEN i ELSE 255

\* percentile_s(frac), frac = pct/100, in 255ths: i / 255.0 for the bin i
\* found, and 1.0 when the loop ends without returning.
percentile_s(cdf, total, pct) ==
    LET target == (pct * total) \div 100
        i      == FirstAtLeast(cdf, target, 0, 255)
    IN  IF i <= 255 THEN i ELSE 255

\* The score of color.py lines 113-129, times 5100 * count (an integer).
\* s_sum is the sum of the S channel, so s_mean_0_1 = s_sum / (255 * count);
\* warmth = (sums.r - sums.b) / count and
\* g_minus_rb = (2 * sums.g - sums.r - sums.b) / (2 * count).
ColorScore(s_sum, count, sums, s_p95) ==
    LET low_pen  == IF 100 * s_sum < 5610 * count
                    THEN (1122 * count - 20 * s_sum) * 220 ELSE 0
        high_pen == IF 100 * s_sum > 14025 * count
                    THEN (20 * s_sum - 2805 * count) * 180 ELSE 0
        warm_pen == Min(91800 * count, Abs(sums.r - sums.b) * 1785)
        gm_pen   == Min(61200 * count,
                        Abs(2 * sums.g - sums.r - sums.b) * 1020)
        bonus    == IF 100 * s_p95 >= 8925 /\ 100 * s_p95 <= 21675
                    THEN 15300 * count ELSE 0
        score    == 510000 * count - low_pen - high_pen - warm_pen - gm_pen
                        + bonus
    IN  _clamp(score, 0, 510000 * count)

\* The notes of color.py lines 84-109.
ColorNotes(s_sum, count, sums) ==
    << IF 100 * s_sum < 3060 * count
       THEN "Colors look very muted (low saturation)."
       ELSE IF 100 * s_sum < 5610 * count
       THEN "Colors look slightly muted (cinematic/soft palette)."
       ELSE IF 100 * s_sum <= 11475 * count
       THEN "Saturation looks natural/healthy."
       ELSE IF 100 * s_sum <= 15300 * count
       THEN "Saturation is strong; watch for oversaturation."
       ELSE "Very strong saturation; risk of clipped/unnatural color.",
       IF sums.r - sums.b > 18 * count
       THEN "Warm color cast detected (reds/yellows dominate)."
       ELSE IF sums.r - sums.b < -18 * count
       THEN "Cool color cast detected (blues dominate)."
       ELSE "White balance looks fairly neutral." >>
    \o (IF 2 * sums.g - sums.r - sums.b > 20 * count
        THEN << "Slight green cast detected (often from fluorescents/shade)." >>
        ELSE IF 2 * sums.g - sums.r - sums.b < -20 * count
        THEN << "Slight magenta cast detected (often from mixed lighting)." >>
        ELSE << >>)

\* color_metrics.  Image.open(...).convert("RGB") is outside any try block.
\* mean_rgb, warmth and green_magenta are in hundredths, the saturations in
\* ten-thousandths, score_0_100 in tenths.
color_metrics(pillow, file, img) ==
    IF ~pillow THEN Returned(PillowNotInstalled)
    ELSE IF file = "missing" THEN Returned(FileNotFound)
    ELSE IF file = "corrupt" THEN Raised("UnidentifiedImageError")
    ELSE LET count  == PixelCount(img)
             sums   == ChannelSums(img)
             s_hist == SatHistogram(img)
             cdf    == Cumulative(s_hist, 0, 255, 0)
             sum    == cdf[255]
             total  == IF sum = 0 THEN 1 ELSE sum
             s_sum  == WeightedBins(s_hist, 0, 255)
             s_p95  == percentile_s(cdf, total, 95)
             score  == ColorScore(s_sum, count, sums, s_p95)
         IN  Returned(
             [available |-> TRUE,
              mean_rgb |-> << RoundHalfEven(100 * sums.r, count),
                              RoundHalfEven(100 * sums.g, count),
                              RoundHalfEven(100 * sums.b, count) >>,
              saturation_mean_0_1 |->
                  RoundHalfEven(10000 * s_sum, 255 * count),
              saturation_p95_0_1 |-> RoundHalfEven(10000 * s_p95, 255),
              warmth_r_minus_b |->
                  RoundHalfEven(100 * (sums.r - sums.b), count),
              green_magenta_g_minus_avg_rb |->
                  RoundHalfEven(100 * (2 * sums.g - sums.r - sums.b),
                                2 * count),
              score_0_100 |-> RoundHalfEven(10 * score, 5100 * count),
              notes |-> ColorNotes(s_sum, count, sums)])

\* The Laplacian variances the sharpness analyzer is tried on: every whole
\* number up to MaxVariance, and a few large ones.
MaxVariance == 185

Variances == 0..MaxVariance \cup {400, 1000, 2500}

\* The variances a call is tried on (one only when the file is not decoded).
VariancesFor(pillow, file) ==
    IF pillow /\ file = "image" THEN Variances ELSE {0}

\* A uniform image: every pixel has the luminance gray, width x height
\* pixels (at most 1600 a side, so that it is not resized).
UniformGrays == {0, 128}

UniformSides == {1, 2, 3, 10, 20}

UniformImages ==
    {[gray |-> g, width |-> w, height |-> h] :
        g \in UniformGrays, w \in UniformSides, h \in UniformSides}

\* The variance of img.filter(ImageFilter.Kernel(...)) for a uniform image,
\* truncated to a whole number.  Pillow returns a copy of an image smaller
\* than the 3x3 kernel; otherwise it filters the interior pixels, which
\* become 8 * gray - 8 * gray = 0, and copies the pixels of the one-pixel
\* border unchanged.  ImageStat's variance of border pixels of value gray
\* among count pixels, the others 0, is gray^2 * border * (count - border)
\* / count^2.
UniformLaplacianVariance(u) ==
    IF u.width < 3 \/ u.height < 3 THEN 0
    ELSE LET count  == u.width * u.height
             border == 2 * u.width + 2 * u.height - 4
         IN  ((u.gray * border) * (u.gray * (count - border)))
                 \div (count * count)

---------------------------------------------------------------------------
(* io/exif.py and the three callers of the analyzers                       *)

\* read_exif_summary: every failure, decoding included, is caught and
\* reported as available = False.  The summary's tags are not modelled.
read_exif_summary(pillow, file, has_exif) ==
    IF ~pillow THEN [available |-> FALSE, error |-> "Pillow not installed"]
    ELSE IF file = "missing"
    THEN [available |-> FALSE, error |-> "File not found"]
    ELSE IF file = "corrupt"
    THEN [available |-> FALSE, error |-> "EXIF parse failed"]
    ELSE [available |-> TRUE, has_exif |-> has_exif]

\* The argument a caller passes to score_image for one analyzer result:
\* x if x.get("available") else {"score_0_100": 50}
ScoreArg_zero(x) ==
    IF x.available THEN MetricDict("number", 10 * x.score_0_100)
    ELSE MetricDict("number", 0)

ScoreArg(x) ==
    IF x.available THEN MetricDict("number", 10 * x.score_0_100)
    ELSE MetricDict("number", NeutralScore)

\* What the callers make of the analyzers' outcomes: an exception of an
\* analyzer leaves the block at once; else the results are aggregated.
CoreResult(exif, exp, shp, col) ==
    IF exp.raised # "" THEN exp
    ELSE IF shp.raised # "" THEN shp
    ELSE IF col.raised # "" THEN col
    ELSE Returned(
             [ok |-> TRUE,
              used_core |-> TRUE,
              exif |-> exif,
              metrics |-> [exposure |-> exp.value,
                           sharpness |-> shp.value,
                           color |-> col.value],
              score |-> score_image(ScoreArg(exp.value),
                                    ScoreArg(shp.value),
                                    ScoreArg(col.value),
                                    [given |-> FALSE, w |-> ScoreWeights])])

\* The statements the three callers share: read the EXIF summary, run the
\* analyzers in order (each once), aggregate.
RunCore(pillow, file, img, variance, has_exif) ==
    CHOOSE r \in
        {CoreResult(read_exif_summary(pillow, file, has_exif), exp, shp, col) :
            exp \in {exposure_metrics(pillow, file, img)},
            shp \in {sharpness_metrics(pillow, file, variance)},
            col \in {color_metrics(pillow, file, img)}} : TRUE

\* _fallback_metrics: Image.open is outside any try block.  The means are in
\* hundredths; contrast_stddev and the image size are not modelled.
_fallback_metrics(pillow, upload, img) ==
    IF ~pillow
    THEN Returned([ok |-> FALSE, used_core |-> FALSE,
                   error |-> "Pillow not installed yet"])
    ELSE IF upload = "corrupt" THEN Raised("UnidentifiedImageError")
    ELSE LET count == PixelCount(img)
             sums  == ChannelSums(img)
         IN  Returned(
             [ok |-> TRUE,
              used_core |-> FALSE,
              result |->
                  [fallback |-> TRUE,
                   exposure |-> [brightness_mean_0_255 |->
                       RoundHalfEven(100 * (sums.r + sums.g + sums.b),
                                     3 * count)],
                   color |-> [mean_rgb |->
                                  << RoundHalfEven(100 * sums.r, count),
                                     RoundHalfEven(100 * sums.g, count),
                                     RoundHalfEven(100 * sums.b, count) >>,
                              warmth_r_minus_b |->
                                  RoundHalfEven(100 * (sums.r - sums.b),
                                                count)]]])

\* critique_image_bytes (backend service).  core says whether the
\* photo_coach_core imports succeed; the upload is written to a temporary
\* file, which therefore exists.  Any exception of the core block is answered
\* by _fallback_metrics.
critique_image_bytes(core, pillow, upload, img, variance, has_exif) ==
    IF ~core THEN _fallback_metrics(pillow, upload, img)
    ELSE LET r == RunCore(pillow, upload, img, variance, has_exif)
         IN  IF r.raised # "" THEN _fallback_metrics(pillow, upload, img)
             ELSE r

\* The /api/v1/critique endpoint of the serverless API: no try block; an
\* upload over 10 MB is refused before anything is analysed.
critique(pillow, upload, img, variance, has_exif) ==
    IF upload = "too_large" THEN Raised("HTTPException 413")
    ELSE RunCore(pillow, upload, img, variance, has_exif)

\* cmd_critique of the command-line tool: exit code 2 when the path does
\* not exist, else the printed values and exit code 0.
cmd_critique(pillow, file, img, variance, has_exif) ==
    IF file = "missing" THEN Returned([exit_code |-> 2])
    ELSE LET r == RunCore(pillow, file, img, variance, has_exif)
         IN  IF r.raised # "" THEN r
             ELSE Returned([exit_code |-> 0,
                            exif |-> r.value.exif,
                            metrics |-> r.value.metrics,
                            score |-> r.value.score])

\* The uploads and files the callers are tried on.
UploadKinds == {"corrupt", "image"}

\* The images the callers are tried on: each palette colour absent or at
\* its full count, in units of 10 pixels.
CritiqueImages ==
    {img \in Images :
        /\ img.scale = 10
        /\ \A j \in PaletteIdx : img.n[j] \in {0, MaxCount}}

CritiqueVariances == {0, 100, 2500}

\* The decoded inputs of one caller: all of them when every analyzer decodes
\* the file, one only when none does.
DecodedInputs(decoded) ==
    IF decoded
    THEN {[image |-> img, variance |-> v, has_exif |-> x] :
             img \in CritiqueImages, v \in CritiqueVariances,
             x \in BOOLEAN}
    ELSE {[image |-> NoPixels, variance |-> 0, has_exif |-> FALSE]}

---------------------------------------------------------------------------
(* The percentile functions on histograms                                  *)

\* The histograms the percentile functions are tried on: base in every bin,
\* and extra[b] more in each bin b of HistBins.  They include the empty
\* histogram, the uniform ones, and those entirely in one bin.
HistBins == {0, 128, 255}

MaxBase == 1

MaxExtra == 2

HistShapes ==
    {[base |-> b, extra |-> e] :
        b \in 0..MaxBase, e \in [HistBins -> 0..MaxExtra]}

\* The 256-bin list of a shape.
HistogramOf(h) ==
    Bins([i \in 0..255 |->
             h.base + (IF i \in HistBins THEN h.extra[i] ELSE 0)],
         0, 255)

\* The fractions, in percent; the analyzers use 0.05 and 0.95.
Pcts == {0, 5, 50, 95, 100}

\* exposure.py lines 40-54 on a histogram: total = sum(hist) or 1, the
\* cumulative list, and percentile_value(pct / 100).
LuminancePercentile(hist, pct) ==
    LET cdf   == Cumulative(hist, 0, 255, 0)
        total == IF cdf[255] = 0 THEN 1 ELSE cdf[255]
    IN  percentile_value(cdf, total, pct)

\* color.py lines 68-80 on a histogram: total = sum(s_hist) or 1, the
\* cumulative list, and percentile_s(pct / 100), in 255ths.
SaturationPercentile(s_hist, pct) ==
    LET cdf   == Cumulative(s_hist, 0, 255, 0)
        total == IF cdf[255] = 0 THEN 1 ELSE cdf[255]
    IN  percentile_s(cdf, total, pct)

---------------------------------------------------------------------------
(* The state machine                                                       *)

\* The idle state: no call in progress.
NoArgs == [none |-> TRUE]

NoResult == [none |-> TRUE]

Init ==
    /\ op = "none"
    /\ args = NoArgs
    /\ ret = NoResult

ScoreImage ==
    \E e \in MetricDicts, s \in MetricDicts, c \in MetricDicts,
       w \in WeightArgs :
        /\ op = "none"
        /\ op' = "score_image"
        /\ args' = [exposure |-> e, sharpness |-> s, color |-> c,
                    weights |-> w]
        /\ ret' = Returned(score_image(e, s, c, w))

MaxPrintSize ==
    \E px_w \in PixelDims, px_h \in PixelDims, p \in TargetPpis :
        /\ op = "none"
        /\ op' = "max_print_size_for_target_ppi"
        /\ args' = [px_w |-> px_w, px_h |-> px_h, target_ppi |-> p]
        /\ ret' = max_print_size_for_target_ppi(px_w, px_h, p)

EffectivePpi ==
    \E px_w \in PixelDims, px_h \in PixelDims,
       w \in PrintInches, h \in PrintInches :
        /\ op = "none"
        /\ op' = "effective_ppi"
        /\ args' = [px_w |-> px_w, px_h |-> px_h,
                    size |-> PrintSizeInches(w, h)]
        /\ ret' = effective_ppi(px_w, px_h, PrintSizeInches(w, h))

\* The ppi_min values quality_tier is tried on, in hundredths of a PPI:
\* every whole PPI from 140 to 310, the value just below each threshold, and
\* a few values far from the thresholds.
PpiValues ==
    {100 * k : k \in 140..310}
        \cup {100 * k - 1 : k \in {150, 200, 240, 300}}
        \cup {-100, 0, 7200, 29985, 100000}

QualityTier ==
    \E ppi_min \in PpiValues :
        /\ op = "none"
        /\ op' = "quality_tier"
        /\ args' = [ppi_min |-> ppi_min]
        /\ ret' = Returned(quality_tier(ppi_min))

DpiRecommendations ==
    \E px_w \in PixelDims, px_h \in PixelDims,
       w \in OptionalInches, h \in OptionalInches :
        /\ op = "none"
        /\ op' = "dpi_recommendations"
        /\ args' = [px_w |-> px_w, px_h |-> px_h,
                    target_print_w_in |-> w, target_print_h_in |-> h]
        /\ ret' = dpi_recommendations(px_w, px_h, w, h)

ExposureMetrics ==
    \E pillow \in BOOLEAN, file \in FileKinds :
    \E img \in ImagesFor(pillow, file) :
        /\ op = "none"
        /\ op' = "exposure_metrics"
        /\ args' = [pillow |-> pillow, file |-> file, image |-> img]
        /\ ret' = exposure_metrics(pillow, file, img)

SharpnessMetrics ==
    \E pillow \in BOOLEAN, file \in FileKinds :
    \E variance \in VariancesFor(pillow, file) :
        /\ op = "none"
        /\ op' = "sharpness_metrics"
        /\ args' = [pillow |-> pillow, file |-> file, variance |-> variance]
        /\ ret' = sharpness_metrics(pillow, file, variance)

\* sharpness_metrics on a file that holds a uniform image, with Pillow
\* installed.  The variance being truncated, the notes are exact and the
\* score is within 0.6 point.
SharpnessMetricsUniform ==
    \E u \in UniformImages :
        /\ op = "none"
        /\ op' = "sharpness_metrics"
        /\ args' = [pillow |-> TRUE, file |-> "image",
                    variance |-> UniformLaplacianVariance(u), uniform |-> u]
        /\ ret' = sharpness_metrics(TRUE, "image", UniformLaplacianVariance(u))

ColorMetrics ==
    \E pillow \in BOOLEAN, file \in FileKinds :
    \E img \in ImagesFor(pillow, file) :
        /\ op = "none"
        /\ op' = "color_metrics"
        /\ args' = [pillow |-> pillow, file |-> file, image |-> img]
        /\ ret' = color_metrics(pillow, file, img)

CritiqueImageBytes ==
    \E core \in BOOLEAN, pillow \in BOOLEAN, upload \in UploadKinds :
    \E d \in DecodedInputs(pillow /\ upload = "image") :
        /\ op = "none"
        /\ op' = "critique_image_bytes"
        /\ args' = [core |-> core, pillow |-> pillow, file |-> upload,
                    image |-> d.image, variance |-> d.variance,
                    has_exif |-> d.has_exif]
        /\ ret' = critique_image_bytes(core, pillow, upload, d.image,
                                       d.variance, d.has_exif)

Critique ==
    \E pillow \in BOOLEAN, upload \in UploadKinds \cup {"too_large"} :
    \E d \in DecodedInputs(pillow /\ upload = "image") :
        /\ op = "none"
        /\ op' = "critique"
        /\ args' = [pillow |-> pillow, file |-> upload,
                    image |-> d.image, variance |-> d.variance,
                    has_exif |-> d.has_exif]
        /\ ret' = critique(pillow, upload, d.image, d.variance, d.has_exif)

CmdCritique ==
    \E pillow \in BOOLEAN, file \in FileKinds :
    \E d \in DecodedInputs(pillow /\ file = "image") :
        /\ op = "none"
        /\ op' = "cmd_critique"
        /\ args' = [pillow |-> pillow, file |-> file,
                    image |-> d.image, variance |-> d.variance,
                    has_exif |-> d.has_exif]
        /\ ret' = cmd_critique(pillow, file, d.image, d.variance,
                               d.has_exif)

PercentileValue ==
    \E h \in HistShapes, pct \in Pcts :
        /\ op = "none"
        /\ op' = "percentile_value"
        /\ args' = [hist |-> h, pct |-> pct]
        /\ ret' = Returned(LuminancePercentile(HistogramOf(h), pct))

PercentileS ==
    \E h \in HistShapes, pct \in Pcts :
        /\ op = "none"
        /\ op' = "percentile_s"
        /\ args' = [hist |-> h, pct |-> pct]
        /\ ret' = Returned(SaturationPercentile(HistogramOf(h), pct))

\* The caller takes the result (or the exception): back to idle.
Return ==
    /\ op # "none"
    /\ op' = "none"
    /\ args' = NoArgs
    /\ ret' = NoResult

\* The score aggregator alone.
NextScore ==
    \/ ScoreImage
    \/ Return

SpecScore == Init /\ [][NextScore]_vars

\* The print-readiness calculator alone.
NextPrint ==
    \/ MaxPrintSize
    \/ EffectivePpi
    \/ DpiRecommendations
    \/ QualityTier
    \/ Return

SpecPrint == Init /\ [][NextPrint]_vars

\* The percentile functions alone.
NextPercentile ==
    \/ PercentileValue
    \/ PercentileS
    \/ Return

SpecPercentile == Init /\ [][NextPercentile]_vars

\* The analyzers, the aggregator and the critique entry points.
NextPipeline ==
    \/ ExposureMetrics
    \/ SharpnessMetrics
    \/ SharpnessMetricsUniform
    \/ ColorMetrics
    \/ ScoreImage
    \/ CritiqueImageBytes
    \/ Critique
    \/ CmdCritique
    \/ Return

SpecPipeline == Init /\ [][NextPipeline]_vars

---------------------------------------------------------------------------
(* Claims about score_image                                                *)

\* The arguments of the call in progress are three numbers and weights that
\* satisfy the ScoreWeights invariant.
ScoreCallNumeric ==
    /\ op = "score_image"
    /\ args.exposure.score_kind = "number"
    /\ args.sharpness.score_kind = "number"
    /\ args.color.score_kind = "number"
    /\ ValidWeights(ret.value.weights)

\* v clamped to [0,100], in hundredths, stated without _clamp.
ClampedInput(v) == IF v < 0 THEN 0 ELSE IF v > 10000 THEN 10000 ELSE v

GradeOfReported(t) ==
    IF t >= 930 THEN "A"
    ELSE IF t >= 850 THEN "B"
    ELSE IF t >= 750 THEN "C"
    ELSE IF t >= 650 THEN "D"
    ELSE "F"

\* C2: the grade follows the reported overall_0_100 through the thresholds
\* A >= 93, B >= 85, C >= 75, D >= 65, else F: a result reporting exactly
\* 93 has grade A, one reporting below 65 has grade F, and of two results
\* the one reporting at least as much never has the worse grade.
C2_GradeFollowsReportedOverall ==
    op = "score_image" => ret.value.grade = GradeOfReported(ret.value.overall_0_100)

---------------------------------------------------------------------------
(* Claims about the analyzers and their callers                            *)

AnalyzerOps == {"exposure_metrics", "sharpness_metrics", "color_metrics"}

CallerOps == {"critique_image_bytes", "critique", "cmd_critique"}

MetricNames == {"exposure", "sharpness", "color"}

\* The call in progress is a caller that came back with the analyzers'
\* results and a score.
CoreResponse ==
    /\ op \in CallerOps
    /\ ret.raised = ""
    /\ {"metrics", "score"} \subseteq DOMAIN ret.value

\* C3 as stated: for every file that exists but cannot be decoded, each
\* analyzer returns available = false with an error message instead of
\* raising, and critique_image_bytes and the /api/v1/critique endpoint still
\* return a response with the metrics and a score.
C3_CorruptFileReportedUnavailable ==
    /\ (op \in AnalyzerOps /\ args.file = "corrupt") =>
           /\ ret.raised = ""
           /\ ~ret.value.available
           /\ "error" \in DOMAIN ret.value
    /\ (op \in {"critique_image_bytes", "critique"} /\ args.file = "corrupt") =>
           CoreResponse

\* The score, in tenths, a metric of a response stands for: its own when it
\* is available, 50 when it is not.
EffectiveScore(m) == IF m.available THEN m.score_0_100 ELSE 500

\* C4: whenever an analyzer result is unavailable, or a metric handed to
\* score_image carries no usable score_0_100, the subscore echoed for it is
\* 50 and an overall_0_100 and a grade are still produced; an available
\* metric contributes its own score_0_100 unchanged, so the overall is a
\* tenth nearest to the default-weighted mean of those scores.
C4_NeutralForUnavailable ==
    /\ CoreResponse =>
           LET m  == ret.value.metrics
               sc == ret.value.score
           IN  /\ \A k \in MetricNames :
                      sc.subscores_0_100[k] = EffectiveScore(m[k])
               /\ Abs(100 * sc.overall_0_100
                          - (40 * EffectiveScore(m.exposure)
                             + 35 * EffectiveScore(m.sharpness)
                             + 25 * EffectiveScore(m.color))) <= 50
               /\ sc.grade \in {"A", "B", "C", "D", "F"}
    /\ op = "score_image" =>
           /\ \A k \in MetricNames :
                  args[k].score_kind # "number" =>
                      ret.value.subscores_0_100[k] = 500
           /\ ret.value.overall_0_100 \in 0..1000
           /\ ret.value.grade \in {"A", "B", "C", "D", "F"}

\* A caller came back although no analyzer was available: every subscore is
\* 50.0, the overall is 50.0 and the grade is F.
C4_Witness ==
    /\ CoreResponse
    /\ \A k \in MetricNames :
           /\ ~ret.value.metrics[k].available
           /\ ret.value.score.subscores_0_100[k] = 500
    /\ ret.value.score.overall_0_100 = 500
    /\ ret.value.score.grade = "F"

\* C5: whenever an analyzer succeeds (available = true), its score_0_100 is
\* within [0,100], whichever penalties and bonuses apply; the same holds of
\* the metrics inside a caller's response.
C5_ScoreWithinRange ==
    /\ (op \in AnalyzerOps /\ ret.raised = "" /\ ret.value.available) =>
           ret.value.score_0_100 \in 0..1000
    /\ CoreResponse =>
           \A k \in MetricNames :
               ret.value.metrics[k].available =>
                   ret.value.metrics[k].score_0_100 \in 0..1000

\* An exposure analysis with no penalty and the +3 dynamic-range bonus: the
\* score before clamping is 103, the score returned is 100.0.
C5_Witness ==
    /\ op = "exposure_metrics"
    /\ ret.raised = ""
    /\ ret.value.available
    /\ ret.value.dynamic_range_0_255 >= 80
    /\ ret.value.dynamic_range_0_255 <= 160
    /\ ret.value.clipped_shadows_pct = 0
    /\ ret.value.clipped_highlights_pct = 0
    /\ ret.value.score_0_100 = 1000

---------------------------------------------------------------------------
(* Claims about the print-readiness calculator                             *)

\* A supplied Optional[float] that is not positive.
SuppliedNonPositive(x) == x.given /\ x.v <= 0

\* C6: every print-readiness call with a non-positive numeric parameter (a
\* print width or height, a target PPI, a pixel width or height) is rejected
\* with an invalid-argument error; none is ignored or defaulted.
C6_NonPositiveRejected ==
    /\ (/\ op = "max_print_size_for_target_ppi"
        /\ (args.target_ppi <= 0 \/ args.px_w <= 0 \/ args.px_h <= 0))
           => ret.raised = "ValueError"
    /\ (/\ op = "effective_ppi"
        /\ (\/ args.size.width_in <= 0 \/ args.size.height_in <= 0
            \/ args.px_w <= 0 \/ args.px_h <= 0))
           => ret.raised = "ValueError"
    /\ (/\ op = "dpi_recommendations"
        /\ (\/ args.px_w <= 0 \/ args.px_h <= 0
            \/ SuppliedNonPositive(args.target_print_w_in)
            \/ SuppliedNonPositive(args.target_print_h_in)))
           => ret.raised = "ValueError"

\* When each of the two functions fails (both forms of C7 agree on this):
\* max_print_size_for_target_ppi exactly when target_ppi <= 0, effective_ppi
\* exactly when the print width or height is <= 0.
C7_FailsExactlyWhen ==
    /\ op = "max_print_size_for_target_ppi"
           => (ret.raised = "ValueError" <=> args.target_ppi <= 0)
    /\ op = "max_print_size_for_target_ppi" => ret.raised \in {"", "ValueError"}
    /\ op = "effective_ppi"
           => (ret.raised = "ValueError"
                  <=> (args.size.width_in <= 0 \/ args.size.height_in <= 0))
    /\ op = "effective_ppi" => ret.raised \in {"", "ValueError"}

\* C7 as stated: the failure conditions, and otherwise the returned values
\* are the quotients themselves: max_width_in = px_w/target_ppi,
\* ppi_width = px_w/width, and so on, with ppi_min the smaller of the two.
C7_ReturnsExactQuotients ==
    /\ C7_FailsExactlyWhen
    /\ (op = "max_print_size_for_target_ppi" /\ ret.raised = "")
           => /\ ret.value.max_width_in * args.target_ppi = 100 * args.px_w
              /\ ret.value.max_height_in * args.target_ppi = 100 * args.px_h
    /\ (op = "effective_ppi" /\ ret.raised = "")
           => /\ ret.value.ppi_width * args.size.width_in
                     = 10000 * args.px_w
              /\ ret.value.ppi_height * args.size.height_in
                     = 10000 * args.px_h
              /\ ret.value.ppi_min
                     = Min(ret.value.ppi_width, ret.value.ppi_height)

\* v is n/d rounded to the nearest whole unit: |v - n/d| <= 1/2 (d > 0).
IsRounded(v, n, d) == 2 * Abs(v * d - n) <= d

\* C7 amended: the failure conditions, and otherwise the returned values are
\* the quotients rounded to two decimals, with ppi_min the smaller of the two
\* returned PPI values.
C7_ReturnsRoundedQuotients ==
    /\ C7_FailsExactlyWhen
    /\ (op = "max_print_size_for_target_ppi" /\ ret.raised = "")
           => /\ IsRounded(ret.value.max_width_in, 100 * args.px_w,
                           args.target_ppi)
              /\ IsRounded(ret.value.max_height_in, 100 * args.px_h,
                           args.target_ppi)
    /\ (op = "effective_ppi" /\ ret.raised = "")
           => /\ IsRounded(ret.value.ppi_width, 10000 * args.px_w,
                           args.size.width_in)
              /\ IsRounded(ret.value.ppi_height, 10000 * args.px_h,
                           args.size.height_in)
              /\ ret.value.ppi_min
                     = Min(ret.value.ppi_width, ret.value.ppi_height)

\* effective_ppi(3000, 1000, 10.00 x 6.67 in) returns 300.0, 149.93 and the
\* smaller of the two: the height quotient is not a whole number of
\* hundredths.
C7_Witness ==
    /\ op = "effective_ppi"
    /\ args.px_w = 3000 /\ args.px_h = 1000
    /\ args.size = PrintSizeInches(1000, 667)
    /\ ret.raised = ""
    /\ ret.value
           = [ppi_width |-> 30000, ppi_height |-> 14993, ppi_min |-> 14993]

\* The call dpi_recommendations(3000, 2000, 10, 6.67).
C8_Call ==
    /\ op = "dpi_recommendations"
    /\ args.px_w = 3000 /\ args.px_h = 2000
    /\ args.target_print_w_in = Some(1000)
    /\ args.target_print_h_in = Some(667)

\* p (hundredths of a PPI) is within 1% of 300.
About300(p) == Abs(p - 30000) * 100 <= 30000

\* C8 as stated: dpi_recommendations(3000, 2000, 10, 6.67) returns ppi_min
\* of about 300 and the quality tier 'excellent'.
C8_TierExcellent ==
    C8_Call =>
        /\ ret.raised = ""
        /\ About300(ret.value.effective_ppi.ppi_min)
        /\ ret.value.quality.tier = "excellent"

\* C8 amended: dpi_recommendations(3000, 2000, 10, 6.67) returns ppi_min
\* 299.85, which is about 300 but below it, and the quality tier 'very_good'.
C8_TierVeryGood ==
    C8_Call =>
        /\ ret.raised = ""
        /\ ret.value.effective_ppi.ppi_min = 29985
        /\ About300(ret.value.effective_ppi.ppi_min)
        /\ ret.value.quality.tier = "very_good"

\* The call of C8 has returned, with an effective_ppi entry.
C8_Witness ==
    /\ C8_Call
    /\ ret.raised = ""
    /\ "effective_ppi" \in DOMAIN ret.value
    /\ ret.value.effective_ppi.ppi_width = 30000

\* p_c (hundredths of a PPI) is within 1% of the whole number p.
AboutPpi(p_c, p) == Abs(p_c - 100 * p) * 100 <= 100 * p

\* C9: for positive pixel dimensions and a positive target PPI p,
\* effective_ppi on the size returned by max_print_size_for_target_ppi
\* succeeds and returns ppi_min approximately equal to p.
C9_InverseConsistent ==
    (/\ op = "max_print_size_for_target_ppi"
     /\ args.px_w > 0 /\ args.px_h > 0 /\ args.target_ppi > 0)
        => /\ ret.raised = ""
           /\ LET eff == effective_ppi(args.px_w, args.px_h,
                             PrintSizeInches(ret.value.max_width_in,
                                             ret.value.max_height_in))
              IN  /\ eff.raised = ""
                  /\ AboutPpi(eff.value.ppi_min, args.target_ppi)

\* The keys dpi_recommendations adds for a target print size.
TargetKeys == {"effective_ppi", "quality", "target_print_size_in"}

\* What every successful dpi_recommendations result holds: the pixel
\* dimensions and exactly the four preset entries, each at its own PPI.
HasPixelsAndFourPresets ==
    /\ {"pixels", "targets"} \subseteq DOMAIN ret.value
    /\ ret.value.pixels = [width_px |-> args.px_w, height_px |-> args.px_h]
    /\ DOMAIN ret.value.targets
           = {"max_print_at_300ppi", "max_print_at_240ppi",
              "max_print_at_200ppi", "max_print_at_150ppi"}
    /\ ret.value.targets.max_print_at_300ppi.target_ppi = 300
    /\ ret.value.targets.max_print_at_240ppi.target_ppi = 240
    /\ ret.value.targets.max_print_at_200ppi.target_ppi = 200
    /\ ret.value.targets.max_print_at_150ppi.target_ppi = 150

BothSuppliedPositive ==
    /\ args.target_print_w_in.given /\ args.target_print_w_in.v > 0
    /\ args.target_print_h_in.given /\ args.target_print_h_in.v > 0

\* C10 as stated: with positive pixel dimensions dpi_recommendations always
\* returns the pixel dimensions and four presets, and the three target keys
\* are all present when both target dimensions are supplied and positive
\* and all absent otherwise; with a non-positive pixel dimension it fails.
C10_AlwaysReturns ==
    op = "dpi_recommendations" =>
        IF args.px_w <= 0 \/ args.px_h <= 0
        THEN ret.raised = "ValueError"
        ELSE /\ ret.raised = ""
             /\ HasPixelsAndFourPresets
             /\ IF BothSuppliedPositive
                THEN TargetKeys \subseteq DOMAIN ret.value
                ELSE TargetKeys \cap DOMAIN ret.value = {}

\* Both target dimensions are supplied and non-zero, and one is negative.
NegativeTargetPair ==
    /\ Truthy(args.target_print_w_in) /\ Truthy(args.target_print_h_in)
    /\ (args.target_print_w_in.v < 0 \/ args.target_print_h_in.v < 0)

\* C10 amended: as stated, except that with positive pixel dimensions the
\* call fails with invalid-argument when both target dimensions are supplied
\* and non-zero and at least one of them is negative; in every other case
\* it returns, with the target keys all present or all absent as stated.
C10_ReturnsUnlessNegativeTarget ==
    op = "dpi_recommendations" =>
        IF args.px_w <= 0 \/ args.px_h <= 0 \/ NegativeTargetPair
        THEN ret.raised = "ValueError"
        ELSE /\ ret.raised = ""
             /\ HasPixelsAndFourPresets
             /\ IF BothSuppliedPositive
                THEN TargetKeys \subseteq DOMAIN ret.value
                ELSE TargetKeys \cap DOMAIN ret.value = {}

\* dpi_recommendations(3000, 2000, None, None) has returned four presets and
\* no target key.
C10_Witness ==
    /\ op = "dpi_recommendations"
    /\ args.px_w = 3000 /\ args.px_h = 2000
    /\ args.target_print_w_in = None /\ args.target_print_h_in = None
    /\ ret.raised = ""
    /\ DOMAIN ret.value = {"pixels", "targets"}
    /\ ret.value.targets.max_print_at_300ppi
           = [max_width_in |-> 1000, max_height_in |-> 667,
              target_ppi |-> 300]


\* The tier the thresholds of the claim give to p hundredths of a PPI.
TierOf(p) ==
    IF p >= 30000 THEN "excellent"
    ELSE IF p >= 24000 /\ p < 30000 THEN "very_good"
    ELSE IF p >= 20000 /\ p < 24000 THEN "good"
    ELSE IF p >= 15000 /\ p < 20000 THEN "fair"
    ELSE "low"

\* The tiers from worst to best.
TierRank(t) ==
    CASE t = "low" -> 0
      [] t = "fair" -> 1
      [] t = "good" -> 2
      [] t = "very_good" -> 3
      [] t = "excellent" -> 4

\* The message each tier carries.
TierMessage(t) ==
    CASE t = "low" -> "Low PPI; print may look soft/pixelated."
      [] t = "fair" ->
             "Fair quality; best for larger viewing distance (150+ PPI)."
      [] t = "good" -> "Good print quality for most uses (200+ PPI)."
      [] t = "very_good" -> "Very good print quality (240+ PPI)."
      [] t = "excellent" -> "Excellent for high-quality prints (300+ PPI)."

\* C11: quality_tier gives every ppi_min the one tier of its band (excellent
\* >= 300, very_good >= 240, good >= 200, fair >= 150, low below), the tier
\* of a smaller ppi_min is never better, and a tier always carries the same
\* message.
C11_TierByThreshold ==
    op = "quality_tier" =>
        /\ ret.raised = ""
        /\ ret.value.tier = TierOf(args.ppi_min)
        /\ ret.value.message = TierMessage(ret.value.tier)
        /\ \A q \in PpiValues :
               q <= args.ppi_min =>
                   TierRank(quality_tier(q).tier) <= TierRank(ret.value.tier)

\* A ppi_min of 299.99, just below the top threshold, is very_good.
C11_Witness ==
    /\ op = "quality_tier"
    /\ args.ppi_min = 29999
    /\ ret.value.tier = "very_good"
    /\ ret.value.message = "Very good print quality (240+ PPI)."

---------------------------------------------------------------------------
(* Claims about the percentile functions                                   *)

\* The cumulative count of the bins 0..i of a histogram shape.
CountUpTo(h, i) ==
    h.base * (i + 1)
        + SumOver([b \in HistBins |-> IF b <= i THEN h.extra[b] ELSE 0],
                  HistBins)

\* The target count of a fraction: int(frac * total), total being the
\* number of counted pixels, or 1 when there is none.
TargetCount(h, pct) ==
    LET n == CountUpTo(h, 255)
    IN  (pct * (IF n = 0 THEN 1 ELSE n)) \div 100

\* The histogram is entirely in bin b.
EntirelyIn(h, b) ==
    /\ h.base = 0
    /\ h.extra[b] > 0
    /\ \A c \in HistBins \ {b} : h.extra[c] = 0

\* The histogram has the same positive count in every bin.
Uniform(h) == h.base > 0 /\ \A b \in HistBins : h.extra[b] = 0

\* C12: the exposure percentile of a fraction is the lowest bin whose
\* cumulative count meets or exceeds the target count, and 255 when no bin
\* does; a histogram entirely in bin 0 has p05 = p95 = 0, and a uniform
\* histogram has p95 - p05 within two points of 90% of 255.
C12_LowestQualifyingBin ==
    op = "percentile_value" =>
        LET h == args.hist
            t == TargetCount(h, args.pct)
            r == ret.value
        IN  /\ IF \E i \in 0..255 : CountUpTo(h, i) >= t
               THEN /\ r \in 0..255
                    /\ CountUpTo(h, r) >= t
                    /\ \A j \in 0..(r - 1) : CountUpTo(h, j) < t
               ELSE r = 255
            /\ (EntirelyIn(h, 0) /\ args.pct \in {5, 95}) => r = 0
            /\ (Uniform(h) /\ args.pct = 95) =>
                   LET d == r - LuminancePercentile(HistogramOf(h), 5)
                   IN  100 * d >= 88 * 255 /\ 100 * d <= 92 * 255

\* p95 of the histogram with one pixel in every bin: the target is 243 and
\* the bin found is 242 (p05 is 11, 231 bins lower).
C12_Witness ==
    /\ op = "percentile_value"
    /\ Uniform(args.hist)
    /\ args.hist.base = 1
    /\ args.pct = 95
    /\ ret.value = 242

---------------------------------------------------------------------------
(* Claims about exposure_metrics                                           *)

\* The call in progress is an exposure analysis that succeeded.
ExposureAnalysed ==
    /\ op = "exposure_metrics"
    /\ ret.raised = ""
    /\ ret.value.available

\* Every pixel of the image is mid-gray (luminance 128).
MidGray(img) ==
    /\ PixelCount(img) > 0
    /\ \A j \in PaletteIdx :
           Count(img, j) > 0 => Luminance(Palette[j]) = 128

\* C13 as stated: for a uniform mid-gray image exposure_metrics returns a
\* score within 5 points of 100.
C13_MidGrayNear100 ==
    (ExposureAnalysed /\ MidGray(args.image)) =>
        ret.value.score_0_100 >= 950

\* C13 amended: for a uniform mid-gray image the mean is 128 and no pixel is
\* clipped; the score is 85.0 when the dynamic range returned is 0, as it is
\* for every such image of 20 pixels or more, the 15 points being the
\* penalty for a dynamic range below 60; it is 100.0 otherwise.
C13_MidGrayScores85 ==
    (ExposureAnalysed /\ MidGray(args.image)) =>
        /\ ret.value.brightness_mean_0_255 = 12800
        /\ ret.value.clipped_shadows_pct = 0
        /\ ret.value.clipped_highlights_pct = 0
        /\ ret.value.score_0_100 =
               (IF ret.value.dynamic_range_0_255 = 0 THEN 850 ELSE 1000)
        /\ PixelCount(args.image) >= 20 =>
               ret.value.dynamic_range_0_255 = 0

\* A mid-gray image of 20 pixels: p05 = p95 = 128 and the score is 85.0.
C13_Witness ==
    /\ ExposureAnalysed
    /\ MidGray(args.image)
    /\ PixelCount(args.image) = 20
    /\ ret.value.brightness_p05_0_255 = 128
    /\ ret.value.brightness_p95_0_255 = 128
    /\ ret.value.score_0_100 = 850

---------------------------------------------------------------------------
(* Claims about sharpness_metrics                                          *)

\* The call in progress is a sharpness analysis that succeeded.
SharpnessAnalysed ==
    /\ op = "sharpness_metrics"
    /\ ret.raised = ""
    /\ ret.value.available

SoftNote == "Image likely soft or slightly out of focus."

DecentNote == "Sharpness looks decent for typical viewing sizes."

VerySharpNote == "Strong fine detail; image appears very sharp."

BlurNote ==
    "Very low edge energy detected (possible motion blur or heavy noise reduction)."

\* The notes of the result that are equal to note.
Occurrences(note) ==
    {i \in 1..Len(ret.value.notes) : ret.value.notes[i] = note}

\* 100 * (1 - exp(-v / 180)) in millionths of a point.
SharpnessCurve(v) == Max(0, Min(100000000, 100000000 - ExpNeg180(v)))

\* The part of C14 about the variance: exactly one classification note
\* (soft below 60, decent from 60 to below 180, very sharp from 180), and
\* the blur note, with 20 points deducted and the score floored at 0,
\* exactly when the variance is below 25, so only together with the soft
\* note; with a variance of 0 the score is 0.
C14_NotesFollowVariance ==
    SharpnessAnalysed =>
        LET v == args.variance
        IN  /\ Cardinality(Occurrences(SoftNote))
                   = (IF v < 60 THEN 1 ELSE 0)
            /\ Cardinality(Occurrences(DecentNote))
                   = (IF v >= 60 /\ v < 180 THEN 1 ELSE 0)
            /\ Cardinality(Occurrences(VerySharpNote))
                   = (IF v >= 180 THEN 1 ELSE 0)
            /\ Cardinality(Occurrences(BlurNote))
                   = (IF v < 25 THEN 1 ELSE 0)
            /\ ret.value.score_0_100 =
                   RoundHalfEven(IF v < 25
                                 THEN Max(0, SharpnessCurve(v) - 20000000)
                                 ELSE SharpnessCurve(v), 100000)
            /\ Occurrences(BlurNote) # {} => Occurrences(SoftNote) # {}
            /\ v = 0 => ret.value.score_0_100 = 0

\* C14 as stated: the notes and the deduction follow the variance as above,
\* and for a uniform image the variance is 0, the score is 0 and the notes
\* mention blur or noise reduction.
C14_UniformImageScoresZero ==
    /\ C14_NotesFollowVariance
    /\ (SharpnessAnalysed /\ "uniform" \in DOMAIN args) =>
           /\ args.variance = 0
           /\ ret.value.score_0_100 = 0
           /\ Occurrences(BlurNote) # {}

---------------------------------------------------------------------------
(* C15: the two percentile helpers agree                                   *)

EmptyShape == [base |-> 0, extra |-> [b \in HistBins |-> 0]]

\* C15: on the same histogram and fraction, percentile_s returns
\* percentile_value's result divided by 255 (both in 255ths here), also
\* when the scan finds no bin (1.0 against 255).
C15_PercentileSIsValueOver255 ==
    /\ op = "percentile_s" =>
           ret.value = LuminancePercentile(HistogramOf(args.hist), args.pct)
    /\ op = "percentile_value" =>
           ret.value = SaturationPercentile(HistogramOf(args.hist), args.pct)

\* The scan that finds no bin: the empty histogram (total replaced by 1)
\* asked for the fraction 1.0; percentile_s returns 1.0.
C15_Witness ==
    /\ op = "percentile_s"
    /\ args.hist = EmptyShape
    /\ args.pct = 100
    /\ ret = Returned(255)
    /\ LuminancePercentile(HistogramOf(EmptyShape), 100) = 255

---------------------------------------------------------------------------
(* C17: the percentiles of small images                                    *)

\* The luminance bins that hold at least one pixel of the image.
PopulatedBins(img) ==
    {Luminance(Palette[j]) : j \in {k \in PaletteIdx : Count(img, k) > 0}}

LowestPopulated(img) ==
    CHOOSE b \in PopulatedBins(img) : \A c \in PopulatedBins(img) : b <= c

HighestPopulated(img) ==
    CHOOSE b \in PopulatedBins(img) : \A c \in PopulatedBins(img) : c <= b

\* C17 as stated: for every analysed image the returned p05 is at least the
\* lowest populated luminance bin and p95 at most the highest one, whatever
\* the pixel count; an image of a single luminance L has p05 = p95 = L and
\* dynamic range 0.
C17_PercentilesWithinPopulatedBins ==
    ExposureAnalysed =>
        LET img == args.image
            r   == ret.value
        IN  /\ LowestPopulated(img) <= r.brightness_p05_0_255
            /\ r.brightness_p95_0_255 <= HighestPopulated(img)
            /\ Cardinality(PopulatedBins(img)) = 1 =>
                   /\ r.brightness_p05_0_255 = LowestPopulated(img)
                   /\ r.brightness_p95_0_255 = LowestPopulated(img)
                   /\ r.dynamic_range_0_255 = 0

---------------------------------------------------------------------------
(* C18: the scan ends inside the loop for the fractions the analyzers use  *)

\* The fractions exposure_metrics and color_metrics pass: 0.05 and 0.95.
AnalyzerPcts == {5, 95}

\* C18: for every histogram, the empty one included (its total replaced by
\* 1), and the fractions 0.05 and 0.95, some bin's cumulative count reaches
\* the target, the value returned is such a bin (the return after the loop
\* is not taken), p05 <= p95, and p95 - p05 lies in 0..255.
C18_ScanEndsInsideLoop ==
    (op \in {"percentile_value", "percentile_s"}
        /\ args.pct \in AnalyzerPcts) =>
        LET h   == args.hist
            t   == TargetCount(h, args.pct)
            p05 == LuminancePercentile(HistogramOf(h), 5)
            p95 == LuminancePercentile(HistogramOf(h), 95)
        IN  /\ \E i \in 0..255 : CountUpTo(h, i) >= t
            /\ ret.value \in 0..255
            /\ CountUpTo(h, ret.value) >= t
            /\ \A j \in 0..(ret.value - 1) : CountUpTo(h, j) < t
            /\ p05 <= p95
            /\ p95 - p05 \in 0..255
            /\ SaturationPercentile(HistogramOf(h), 5)
                   <= SaturationPercentile(HistogramOf(h), 95)

\* The empty histogram: total is 1, the target int(0.95 * 1) is 0, and the
\* scan returns bin 0 at its first step.
C18_Witness ==
    /\ op = "percentile_value"
    /\ args.hist = EmptyShape
    /\ args.pct = 95
    /\ ret = Returned(0)

---------------------------------------------------------------------------
(* C16: the overall score as a weighted mean                               *)

\* -1, 0 or 1 as the float overall is below, equal to or above float(h / 100),
\* a subscore h given in hundredths.
OverallVersusScore(sub, w, h) ==
    LET o == Overall(sub, w)
    IN  IF 100 * o.num < h * o.den THEN -1
        ELSE IF 100 * o.num > h * o.den THEN 1
        ELSE FCmp(overall_float(sub, w), FloatOf(h))

\* The grade of an overall equal to the score h (in hundredths).
GradeOfScore(h) ==
    IF h >= 9300 THEN "A"
    ELSE IF h >= 8500 THEN "B"
    ELSE IF h >= 7500 THEN "C"
    ELSE IF h >= 6500 THEN "D"
    ELSE "F"

\* C16 as stated: for non-negative weights that are not all zero, the
\* overall computed by score_image (before rounding) lies between the
\* smallest and the largest clamped subscore, and three equal subscores s
\* give overall = s, hence the grade of s.
C16_OverallBetweenSubscores ==
    (op = "score_image" /\ ValidWeights(ret.value.weights)) =>
        LET w   == ret.value.weights
            sub == Subscores(args.exposure, args.sharpness, args.color)
            lo  == Min(sub.exposure, Min(sub.sharpness, sub.color))
            hi  == Max(sub.exposure, Max(sub.sharpness, sub.color))
        IN  /\ OverallVersusScore(sub, w, lo) >= 0
            /\ OverallVersusScore(sub, w, hi) <= 0
            /\ lo = hi =>
                   /\ OverallVersusScore(sub, w, lo) = 0
                   /\ ret.value.grade = GradeOfScore(lo)
=============================================================================
